---- MODULE Spec2Model ----
(***************************************************************************)
(* Model of accepter_bot.py: a Telegram bot that approves chat join        *)
(* requests for channels registered in a MongoDB collection, with a        *)
(* /connect conversation that registers a channel.                         *)
(*                                                                         *)
(* The dispatcher (python-telegram-bot's Application) hands the updates to *)
(* the handlers one at a time (concurrent_updates is not enabled at line   *)
(* 125), so each handler run is one step.  The outcome of every call to an *)
(* external collaborator (the Telegram API, MongoDB) is an input of the    *)
(* step.  The variables update .. raised hold the trace of the last        *)
(* handled update: what was called, replied, logged and raised.            *)
(***************************************************************************)
EXTENDS Integers, Sequences, FiniteSets, TLC

\* ---------------------------------------------------------------- bounds
MaxChannel == 2
MaxUser == 2

ChannelIds == {100 * i : i \in 1..MaxChannel}
Users == 1..MaxUser

\* The title of each channel, by its position in ChannelIds.
TitleNames == <<"News", "Sport", "Music", "Films", "Books">>
Title(id) == TitleNames[id \div 100]

\* ------------------------------------------------------------- constants
AWAIT_FORWARD == 0
END == -1
BotId == 0

None == "None"
OK == "ok"
NoError == ""

default_message == "Welcome! Your request to join has been approved."
\* A welcome message other than the default, as an operator of the database
\* may have set it (the code never writes one).
custom_message == "Hi there"

\* The exceptions the external calls raise, by name.
StorageError == "ServerSelectionTimeoutError"
Forbidden == "Forbidden"
BadRequest == "BadRequest"

VARIABLES
    BOT_TOKEN,            \* os.getenv("TELEGRAM_BOT_TOKEN") is set
    MONGODB_URI,          \* os.getenv("MONGODB_URI") is set
    client,               \* the module-level client is not None
    phase,                \* "startup", "polling" or "exited"
    channels_collection,  \* the documents of db.channels
    conversations,        \* ConversationHandler's state of each user
    update,               \* the last update the dispatcher received
    handler,              \* the callback that handled it ("" when none did)
    replies,              \* reply_text calls of that callback
    calls,                \* its other Telegram API calls, in order
    registry_calls,       \* its MongoDB calls, in order
    log,                  \* its log records, in order
    raised,               \* the exception that left the callback (NoError: none)
    storage,              \* what a MongoDB call did during that update: OK or
                          \* the exception it raised
    bot_member,           \* what get_chat_member answered, or would have, for
                          \* the channel of the last message
    first_written,        \* history: the message each channel's document held
                          \* right after the first add_channel for it
    wizard_tasks,         \* each user's handle_forwarded_message coroutine,
                          \* where it is suspended ("" when none runs)
    join_tasks            \* each channel's approve_chat_join_request
                          \* coroutine, where it is suspended

vars == <<BOT_TOKEN, MONGODB_URI, client, phase, channels_collection,
          conversations, update, handler, replies, calls, registry_calls,
          log, raised, storage, bot_member, first_written, wizard_tasks,
          join_tasks>>

config == <<BOT_TOKEN, MONGODB_URI, client>>

tasks == <<wizard_tasks, join_tasks>>

\* ---------------------------------------------------------- record shapes
Doc(chat_id, message) == [_id |-> chat_id, welcome_message |-> message]

Chat(id, title) == [id |-> id, title |-> title]

Update(type, user, chat_id, chat_type, forwarded, forward_from_chat) ==
    [type |-> type, user |-> user, chat_id |-> chat_id, chat_type |-> chat_type,
     forwarded |-> forwarded, forward_from_chat |-> forward_from_chat]

Command(name, user) == Update(name, user, user, "private", FALSE, <<>>)

Call(op, chat_id, user_id, text, result) ==
    [op |-> op, chat_id |-> chat_id, user_id |-> user_id, text |-> text,
     result |-> result]

RegistryCall(op, id, result, value) ==
    [op |-> op, id |-> id, result |-> result, value |-> value]

Reply(text, detail) == [text |-> text, detail |-> detail]

Log(level, event, detail) ==
    [level |-> level, event |-> event, detail |-> detail]

BotMember(error, status, can_invite_users) ==
    [error |-> error, status |-> status, can_invite_users |-> can_invite_users]

Outcome(cs, rcs, lg, exc) ==
    [calls |-> cs, registry_calls |-> rcs, log |-> lg, raised |-> exc]

Run(state, coll, rs, cs, rcs, lg, exc) ==
    [state |-> state, coll |-> coll, replies |-> rs, calls |-> cs,
     registry_calls |-> rcs, log |-> lg, raised |-> exc]

\* A handle_forwarded_message coroutine: the await it is suspended at, the
\* channel of the forward, whether update_one has succeeded, and the state
\* it will return.
WizardTask(at, forward_from_chat, registered, state) ==
    [at |-> at, forward_from_chat |-> forward_from_chat,
     registered |-> registered, state |-> state]

\* An approve_chat_join_request coroutine: where it is, and the
\* welcome_message its lookup returned.
JoinTask(at, welcome_message) ==
    [at |-> at, welcome_message |-> welcome_message]

NoWizardTask == WizardTask("", <<>>, FALSE, END)
NoJoinTask == JoinTask("", None)

\* --------------------------------------------------------------- registry
Docs(coll, chat_id) == {d \in coll : d._id = chat_id}

\* Mutant of add_channel: the document is inserted without its message,
\* which a second call would have to set.
add_channel_Partial(coll, chat_id) ==
    IF Docs(coll, chat_id) # {}
    THEN coll
    ELSE coll \cup {Doc(chat_id, None)}

\* Mutant of add_channel: "$set" in place of "$setOnInsert", which rewrites the
\* message of a document that exists.
add_channel_Overwriting(coll, chat_id) ==
    (coll \ Docs(coll, chat_id)) \cup {Doc(chat_id, default_message)}

\* Lines 36-43: update_one({"_id": chat_id}, {"$setOnInsert": ...}, upsert=True)
add_channel(coll, chat_id) ==
    IF Docs(coll, chat_id) # {}
    THEN coll
    ELSE coll \cup {Doc(chat_id, default_message)}

\* Mutant of get_welcome_message: a channel without a document gets the
\* default message instead of None.
get_welcome_message_Defaulting(coll, chat_id) ==
    IF Docs(coll, chat_id) # {}
    THEN (CHOOSE d \in Docs(coll, chat_id) : TRUE).welcome_message
    ELSE default_message

\* find_one({"_id": chat_id}), then .get("welcome_message") or None
get_welcome_message(coll, chat_id) ==
    IF Docs(coll, chat_id) # {}
    THEN (CHOOSE d \in Docs(coll, chat_id) : TRUE).welcome_message
    ELSE None

\* Mutant of NotRegistered: the allow-list check is left out.
NotRegistered_Unchecked(welcome_message) ==
    FALSE

\* Line 103, Python's "not welcome_message": None and the empty string are
\* falsy.
NotRegistered(welcome_message) ==
    welcome_message = None \/ welcome_message = ""

\* ------------------------------------------------- join-request approver
\* Mutant of send_welcome: error.Forbidden is not caught apart and goes to the
\* catch-all like any other failure.
send_welcome_Uncaught(user_id, welcome_message, send_res) ==
    LET sent == Call("send_message", user_id, user_id, welcome_message, send_res)
    IN  IF send_res = OK
        THEN Outcome(<<sent>>, <<>>,
                     <<Log("INFO", "Sent welcome message", "")>>, NoError)
        ELSE Outcome(<<sent>>, <<>>, <<>>, send_res)

\* Lines 110-114: the direct message, with error.Forbidden caught here.
send_welcome(user_id, welcome_message, send_res) ==
    LET sent == Call("send_message", user_id, user_id, welcome_message, send_res)
    IN  IF send_res = OK
        THEN Outcome(<<sent>>, <<>>,
                     <<Log("INFO", "Sent welcome message", "")>>, NoError)
        ELSE IF send_res = Forbidden
        THEN Outcome(<<sent>>, <<>>,
                     <<Log("WARNING", "Could not send PM (blocked bot)", "")>>,
                     NoError)
        ELSE Outcome(<<sent>>, <<>>, <<>>, send_res)

\* Mutant of approve_and_welcome: the welcome goes to the chat of the request
\* instead of the user.
approve_and_welcome_ToChat(chat_id, user_id, welcome_message, approve_res, send_res) ==
    LET approval == Call("approve_chat_join_request", chat_id, user_id, "",
                         approve_res)
        failed(e) == Log("ERROR", "Failed to process join request", e)
        w == send_welcome(chat_id, welcome_message, send_res)
    IN  IF approve_res # OK
        THEN Outcome(<<approval>>, <<>>, <<failed(approve_res)>>, NoError)
        ELSE Outcome(<<approval>> \o w.calls, <<>>,
                     <<Log("INFO", "Approved join request", "")>> \o w.log
                        \o (IF w.raised # NoError
                            THEN <<failed(w.raised)>> ELSE <<>>),
                     NoError)

\* Mutant of approve_and_welcome: the approval has a try of its own, so the
\* welcome is sent whether or not the approval succeeded.
approve_and_welcome_Regardless(chat_id, user_id, welcome_message, approve_res, send_res) ==
    LET approval == Call("approve_chat_join_request", chat_id, user_id, "",
                         approve_res)
        failed(e) == Log("ERROR", "Failed to process join request", e)
        w == send_welcome(user_id, welcome_message, send_res)
    IN  Outcome(<<approval>> \o w.calls, <<>>,
                (IF approve_res # OK
                 THEN <<failed(approve_res)>>
                 ELSE <<Log("INFO", "Approved join request", "")>>)
                   \o w.log
                   \o (IF w.raised # NoError THEN <<failed(w.raised)>> ELSE <<>>),
                NoError)

\* Lines 106-117: the approval, the welcome after it, and the catch-all.
approve_and_welcome(chat_id, user_id, welcome_message, approve_res, send_res) ==
    LET approval == Call("approve_chat_join_request", chat_id, user_id, "",
                         approve_res)
        failed(e) == Log("ERROR", "Failed to process join request", e)
        w == send_welcome(user_id, welcome_message, send_res)
    IN  IF approve_res # OK
        THEN Outcome(<<approval>>, <<>>, <<failed(approve_res)>>, NoError)
        ELSE Outcome(<<approval>> \o w.calls, <<>>,
                     <<Log("INFO", "Approved join request", "")>> \o w.log
                        \o (IF w.raised # NoError
                            THEN <<failed(w.raised)>> ELSE <<>>),
                     NoError)

\* Lines 96-117.  find_res is the outcome of find_one: OK or the exception.
approve_chat_join_request(coll, chat_id, user_id, find_res, approve_res, send_res) ==
    LET welcome_message == get_welcome_message(coll, chat_id)
        lookup(v) == RegistryCall("find_one", chat_id, find_res, v)
        a == approve_and_welcome(chat_id, user_id, welcome_message,
                                 approve_res, send_res)
    IN  IF find_res # OK
        THEN Outcome(<<>>, <<lookup(None)>>, <<>>, find_res)
        ELSE IF NotRegistered(welcome_message)
        THEN Outcome(<<>>, <<lookup(welcome_message)>>, <<>>, NoError)
        ELSE Outcome(a.calls, <<lookup(welcome_message)>>, a.log, a.raised)

\* ------------------------------------------------------------ setup wizard
\* Mutant of HasPermission: only the role is checked.
HasPermission_RoleOnly(member) ==
    member.status = "administrator"

\* Line 79: bot_member.status == "administrator" and bot_member.can_invite_users
HasPermission(member) ==
    member.status = "administrator" /\ member.can_invite_users

\* Mutant of wizard_error: the catch-all asks the user to try again and keeps
\* the conversation open.
wizard_error_StaysOpen(e, coll, cs, rcs) ==
    Run(AWAIT_FORWARD, coll, <<Reply("An error occurred: {e}", e)>>, cs, rcs,
        <<Log("ERROR", "Error in handle_forwarded_message", e)>>, NoError)

\* Lines 85-89: the catch-all of the wizard, then the final return.
wizard_error(e, coll, cs, rcs) ==
    Run(END, coll, <<Reply("An error occurred: {e}", e)>>, cs, rcs,
        <<Log("ERROR", "Error in handle_forwarded_message", e)>>, NoError)

\* Mutant of handle_forwarded_message: add_channel is called before the
\* membership check instead of after it.
handle_forwarded_message_RegistersFirst(coll, message, member, upsert_res) ==
    LET chat == message.forward_from_chat
        chat_id == chat[1].id
        chat_title == chat[1].title
        membership == Call("get_chat_member", chat_id, BotId, "",
                           IF member.error = NoError THEN OK
                           ELSE member.error)
        upsert(v) == RegistryCall("update_one", chat_id, upsert_res, v)
        added == add_channel(coll, chat_id)
    IN  IF chat = <<>>
        THEN Run(AWAIT_FORWARD, coll,
                 <<Reply("This is not a forwarded message from a channel. Please try again.", "")>>,
                 <<>>, <<>>, <<>>, NoError)
        ELSE IF upsert_res # OK
        THEN wizard_error(upsert_res, coll, <<>>, <<upsert(None)>>)
        ELSE IF member.error # NoError
        THEN wizard_error(member.error, added, <<membership>>,
                          <<upsert(default_message)>>)
        ELSE IF ~HasPermission(member)
        THEN Run(END, added,
                 <<Reply("I am not an admin in '{chat_title}' or I lack 'Invite Users' permission.", chat_title)>>,
                 <<membership>>, <<upsert(default_message)>>, <<>>, NoError)
        ELSE Run(END, added,
                 <<Reply("Successfully connected to channel: {chat_title}.", chat_title)>>,
                 <<membership>>, <<upsert(default_message)>>, <<>>, NoError)

\* Lines 67-89.  member is the outcome of get_chat_member and upsert_res
\* the outcome of update_one.
handle_forwarded_message(coll, message, member, upsert_res) ==
    LET chat == message.forward_from_chat
        chat_id == chat[1].id
        chat_title == chat[1].title
        membership == Call("get_chat_member", chat_id, BotId, "",
                           IF member.error = NoError THEN OK
                           ELSE member.error)
        upsert(v) == RegistryCall("update_one", chat_id, upsert_res, v)
    IN  IF chat = <<>>
        THEN Run(AWAIT_FORWARD, coll,
                 <<Reply("This is not a forwarded message from a channel. Please try again.", "")>>,
                 <<>>, <<>>, <<>>, NoError)
        ELSE IF member.error # NoError
        THEN wizard_error(member.error, coll, <<membership>>, <<>>)
        ELSE IF ~HasPermission(member)
        THEN Run(END, coll,
                 <<Reply("I am not an admin in '{chat_title}' or I lack 'Invite Users' permission.", chat_title)>>,
                 <<membership>>, <<>>, <<>>, NoError)
        ELSE IF upsert_res # OK
        THEN wizard_error(upsert_res, coll, <<membership>>, <<upsert(None)>>)
        ELSE Run(END, add_channel(coll, chat_id),
                 <<Reply("Successfully connected to channel: {chat_title}.", chat_title)>>,
                 <<membership>>, <<upsert(default_message)>>, <<>>, NoError)

\* Line 129: filters.FORWARDED & filters.ChatType.CHANNEL.  FORWARDED holds of
\* a forwarded message; ChatType.CHANNEL holds when the chat the message was
\* sent in is a channel.
ForwardFilter(message) ==
    message.forwarded /\ message.chat_type = "channel"

\* ------------------------------------------------------------------ inputs
FindResults == {OK, StorageError}
ApproveResults == {OK, BadRequest}
SendResults == {OK, Forbidden, BadRequest}
UpsertResults == {OK, StorageError}
NotAsked == BotMember(NoError, "", FALSE)
BotMembers ==
    {BotMember(BadRequest, "", FALSE), BotMember(NoError, "left", FALSE),
     BotMember(NoError, "administrator", FALSE),
     BotMember(NoError, "administrator", TRUE)}

ForwardOrigins ==
    {<<>>} \cup {<<Chat(id, Title(id))>> : id \in ChannelIds}

\* The messages user u can send: plain, forwarded from a user (no
\* forward_from_chat), or forwarded from a channel, in a chat of either type.
MessageUpdates(u) ==
    {m \in {Update("message", u, u, t, f, o) :
               t \in {"private", "channel"}, f \in BOOLEAN,
               o \in ForwardOrigins} :
        m.forward_from_chat # <<>> => m.forwarded}

\* The history of first writes after a handler run: a channel's entry is set
\* by the first update_one that succeeds for it.
FirstWritten(fw, rcs, coll) ==
    [c \in ChannelIds |->
        IF /\ fw[c] = None
           /\ \E i \in 1..Len(rcs) :
                 rcs[i].op = "update_one" /\ rcs[i].id = c /\ rcs[i].result = OK
        THEN (CHOOSE d \in coll : d._id = c).welcome_message
        ELSE fw[c]]

\* ----------------------------------------------------------------- actions
Init ==
    /\ BOT_TOKEN \in BOOLEAN
    /\ MONGODB_URI \in BOOLEAN
    \* Lines 26-33: MongoClient(MONGODB_URI) raises only on a malformed URI.
    /\ client \in (IF MONGODB_URI THEN BOOLEAN ELSE {TRUE})
    /\ phase = "startup"
    /\ channels_collection = {}
    /\ conversations = [u \in Users |-> END]
    /\ update = Update("none", BotId, BotId, "private", FALSE, <<>>)
    /\ handler = ""
    /\ replies = <<>>
    /\ calls = <<>>
    /\ registry_calls = <<>>
    /\ log = <<>>
    /\ raised = NoError
    /\ storage = OK
    /\ bot_member = NotAsked
    /\ first_written = [c \in ChannelIds |-> None]
    /\ wizard_tasks = [u \in Users |-> NoWizardTask]
    /\ join_tasks = [c \in ChannelIds |-> NoJoinTask]

\* Mutant of Configured: the client is not looked at.
Configured_SkipsClient ==
    BOT_TOKEN /\ MONGODB_URI

\* Line 121: all([BOT_TOKEN, MONGODB_URI, client])
Configured ==
    BOT_TOKEN /\ MONGODB_URI /\ client

\* Lines 120-138.
Main ==
    /\ phase = "startup"
    /\ IF Configured
       THEN /\ phase' = "polling"
            /\ log' = <<Log("INFO", "Bot is starting...", "")>>
       ELSE /\ phase' = "exited"
            /\ log' = <<Log("CRITICAL", "Missing BOT_TOKEN or MONGODB_URI, or failed to connect to DB. Exiting.", "")>>
    /\ handler' = "main"
    /\ UNCHANGED <<config, channels_collection, conversations, update, replies,
                   calls, registry_calls, raised, storage, bot_member,
                   first_written, tasks>>

\* An update whose handling touches neither the registry nor the platform.
Replied(upd, name, reply) ==
    /\ update' = upd
    /\ handler' = name
    /\ replies' = reply
    /\ calls' = <<>>
    /\ registry_calls' = <<>>
    /\ log' = <<>>
    /\ raised' = NoError
    /\ UNCHANGED <<config, phase, channels_collection, first_written>>

\* A command calls neither MongoDB nor get_chat_member.
Untouched ==
    /\ storage' = OK
    /\ bot_member' = NotAsked
    /\ UNCHANGED tasks

\* Lines 54-57 and 133: /start, registered before the conversation handler.
Start(u) ==
    /\ phase = "polling"
    /\ Replied(Command("start", u), "start",
               <<Reply("Hello! I use MongoDB to manage channels. Use /connect to link me to your channel.", "")>>)
    /\ Untouched
    /\ UNCHANGED conversations

\* Lines 59-65 and 128: /connect is an entry point, tried only when the user
\* has no conversation.
Connect(u) ==
    /\ phase = "polling"
    /\ IF conversations[u] = END
       THEN /\ Replied(Command("connect", u), "connect_start",
                       <<Reply("Please forward any message from the channel you want me to manage. Make sure I am an admin with 'Invite Users' permission.", "")>>)
            /\ conversations' = [conversations EXCEPT ![u] = AWAIT_FORWARD]
       ELSE /\ Replied(Command("connect", u), "", <<>>)
            /\ UNCHANGED conversations
    /\ Untouched

\* Mutant of Cancel: cancel is registered as a handler of its own, so it
\* answers outside a conversation too.
Cancel_Standalone(u) ==
    /\ phase = "polling"
    /\ Replied(Command("cancel", u), "cancel",
               <<Reply("Operation cancelled.", "")>>)
    /\ conversations' = [conversations EXCEPT ![u] = END]
    /\ Untouched

\* Lines 91-93 and 130: /cancel is a fallback, tried only inside a conversation.
Cancel(u) ==
    /\ phase = "polling"
    /\ IF conversations[u] = AWAIT_FORWARD
       THEN /\ Replied(Command("cancel", u), "cancel",
                       <<Reply("Operation cancelled.", "")>>)
            /\ conversations' = [conversations EXCEPT ![u] = END]
       ELSE /\ Replied(Command("cancel", u), "", <<>>)
            /\ UNCHANGED conversations
    /\ Untouched

\* Lines 127-131 with 67-89: a message of user u reaches
\* handle_forwarded_message when u is in AWAIT_FORWARD and the message passes
\* the filter of line 129; any other message is handled by nothing.
Message(u) ==
    /\ phase = "polling"
    /\ UNCHANGED tasks
    /\ \E m \in MessageUpdates(u), member \in BotMembers,
          upsert_res \in UpsertResults :
          /\ bot_member' = member
          /\ storage' = upsert_res
          /\ IF conversations[u] = AWAIT_FORWARD /\ ForwardFilter(m)
             THEN LET r == handle_forwarded_message(channels_collection, m,
                                                    member, upsert_res)
                  IN  /\ update' = m
                      /\ handler' = "handle_forwarded_message"
                      /\ conversations' = [conversations EXCEPT ![u] = r.state]
                      /\ channels_collection' = r.coll
                      /\ first_written' =
                            FirstWritten(first_written, r.registry_calls, r.coll)
                      /\ replies' = r.replies
                      /\ calls' = r.calls
                      /\ registry_calls' = r.registry_calls
                      /\ log' = r.log
                      /\ raised' = r.raised
                      /\ UNCHANGED <<config, phase>>
             ELSE /\ Replied(m, "", <<>>)
                  /\ UNCHANGED conversations

\* Lines 96-117 and 135: one join request of user u for chat c.
JoinRequest(c, u) ==
    /\ phase = "polling"
    /\ UNCHANGED tasks
    /\ \E find_res \in FindResults, approve_res \in ApproveResults,
          send_res \in SendResults :
          /\ storage' = find_res
          /\
             LET r == approve_chat_join_request(channels_collection, c, u,
                                             find_res, approve_res, send_res)
             IN
              /\ update' = Update("chat_join_request", u, c, "channel", FALSE, <<>>)
              /\ handler' = "approve_chat_join_request"
              /\ replies' = <<>>
              /\ calls' = r.calls
              /\ registry_calls' = r.registry_calls
              /\ log' = r.log
              /\ raised' = r.raised
              /\ UNCHANGED <<config, phase, channels_collection, conversations,
                             first_written>>
              /\ bot_member' = NotAsked

\* The registry as add_channel can find it: empty, or holding the first
\* channel with a welcome message of its own.
InitStore ==
    /\ BOT_TOKEN \in BOOLEAN
    /\ MONGODB_URI \in BOOLEAN
    /\ client \in (IF MONGODB_URI THEN BOOLEAN ELSE {TRUE})
    /\ phase = "startup"
    /\ channels_collection \in
          {{}, {Doc(CHOOSE c \in ChannelIds : \A d \in ChannelIds : c <= d,
                    custom_message)}}
    /\ conversations = [u \in Users |-> END]
    /\ update = Update("none", BotId, BotId, "private", FALSE, <<>>)
    /\ handler = ""
    /\ replies = <<>>
    /\ calls = <<>>
    /\ registry_calls = <<>>
    /\ log = <<>>
    /\ raised = NoError
    /\ storage = OK
    /\ bot_member = NotAsked
    /\ first_written = [c \in ChannelIds |-> None]
    /\ wizard_tasks = [u \in Users |-> NoWizardTask]
    /\ join_tasks = [c \in ChannelIds |-> NoJoinTask]

Next ==
    \/ Main
    \/ \E u \in Users : Start(u)
    \/ \E u \in Users : Connect(u)
    \/ \E u \in Users : Cancel(u)
    \/ \E u \in Users : Message(u)
    \/ \E c \in ChannelIds, u \in Users : JoinRequest(c, u)

Spec == Init /\ [][Next]_vars

\* The same program started on a registry that may already hold a document.
SpecStore == InitStore /\ [][Next]_vars

\* ------------------------------------------------- interleaved handlers
\* Line 125 builds the Application without concurrent_updates, so the
\* dispatcher of this build awaits each handler before it takes the next
\* update: Next above.  The actions below cover a dispatcher that starts a
\* handler for every update at once: a handler runs from one await to the
\* next without interruption, and the handlers of different users and
\* channels interleave at their awaits.  The pymongo calls of lines 39 and 47
\* are not awaited, so each runs within one step.

\* Lines 67-77: the forward reaches the handler, which replies at line 71
\* when forward_from_chat is missing and awaits get_chat_member otherwise.
WizardForwarded(u) ==
    /\ phase = "polling"
    /\ conversations[u] = AWAIT_FORWARD
    /\ wizard_tasks[u] = NoWizardTask
    /\ \E m \in MessageUpdates(u) :
          /\ ForwardFilter(m)
          /\ wizard_tasks' = [wizard_tasks EXCEPT ![u] =
                IF m.forward_from_chat = <<>>
                THEN WizardTask("reply_text", <<>>, FALSE,
                                handle_forwarded_message(channels_collection,
                                                         m, NotAsked, OK).state)
                ELSE WizardTask("get_chat_member", m.forward_from_chat, FALSE,
                                AWAIT_FORWARD)]
    /\ UNCHANGED <<config, phase, channels_collection, conversations, update,
                   handler, replies, calls, registry_calls, log, raised,
                   storage, bot_member, first_written, join_tasks>>

\* Lines 77-86: get_chat_member has answered; the handler runs to its
\* reply_text, through add_channel when the bot has the permission.
WizardAnswered(u) ==
    /\ phase = "polling"
    /\ wizard_tasks[u].at = "get_chat_member"
    /\ \E member \in BotMembers, upsert_res \in UpsertResults :
          LET m == Update("message", u, u, "channel", TRUE,
                          wizard_tasks[u].forward_from_chat)
              r == handle_forwarded_message(channels_collection, m, member,
                                            upsert_res)
              registered == \E i \in 1..Len(r.registry_calls) :
                               r.registry_calls[i].result = OK
          IN  /\ channels_collection' = r.coll
              /\ first_written' =
                    FirstWritten(first_written, r.registry_calls, r.coll)
              /\ wizard_tasks' = [wizard_tasks EXCEPT ![u] =
                    WizardTask("reply_text", m.forward_from_chat, registered,
                               r.state)]
    /\ UNCHANGED <<config, phase, conversations, update, handler, replies,
                   calls, registry_calls, log, raised, storage, bot_member,
                   join_tasks>>

\* Lines 72 and 89: the reply is sent and the handler returns its state to
\* the conversation.
WizardReturned(u) ==
    /\ phase = "polling"
    /\ wizard_tasks[u].at = "reply_text"
    /\ conversations' = [conversations EXCEPT ![u] = wizard_tasks[u].state]
    /\ wizard_tasks' = [wizard_tasks EXCEPT ![u] = NoWizardTask]
    /\ UNCHANGED <<config, phase, channels_collection, update, handler,
                   replies, calls, registry_calls, log, raised, storage,
                   bot_member, first_written, join_tasks>>

\* Lines 96-107: a join request for chat c reaches the handler, which looks
\* the channel up and either returns (line 104), is left by the exception of
\* find_one, or awaits the approval.
JoinRequested(c) ==
    /\ phase = "polling"
    /\ join_tasks[c] = NoJoinTask
    /\ \E find_res \in FindResults :
          LET welcome_message == get_welcome_message(channels_collection, c)
          IN  join_tasks' = [join_tasks EXCEPT ![c] =
                IF find_res # OK
                THEN NoJoinTask
                ELSE IF NotRegistered(welcome_message)
                THEN JoinTask("return", welcome_message)
                ELSE JoinTask("approve_chat_join_request", welcome_message)]
    /\ UNCHANGED <<config, phase, channels_collection, conversations, update,
                   handler, replies, calls, registry_calls, log, raised,
                   storage, bot_member, first_written, wizard_tasks>>

\* Lines 107-111 and 115-117: the approval has answered; on success the
\* handler awaits send_message, on failure it logs and ends.
JoinApproved(c) ==
    /\ phase = "polling"
    /\ join_tasks[c].at = "approve_chat_join_request"
    /\ \E approve_res \in ApproveResults :
          join_tasks' = [join_tasks EXCEPT ![c] =
                IF approve_res = OK
                THEN JoinTask("send_message", join_tasks[c].welcome_message)
                ELSE NoJoinTask]
    /\ UNCHANGED <<config, phase, channels_collection, conversations, update,
                   handler, replies, calls, registry_calls, log, raised,
                   storage, bot_member, first_written, wizard_tasks>>

\* Lines 104 and 111-117: the handler ends, after send_message when it
\* awaited one.
JoinReturned(c) ==
    /\ phase = "polling"
    /\ join_tasks[c].at \in {"return", "send_message"}
    /\ join_tasks' = [join_tasks EXCEPT ![c] = NoJoinTask]
    /\ UNCHANGED <<config, phase, channels_collection, conversations, update,
                   handler, replies, calls, registry_calls, log, raised,
                   storage, bot_member, first_written, wizard_tasks>>

\* Lines 59-65 and 128: a user whose session has ended sends /connect again.
Reconnect(u) ==
    /\ conversations[u] = END
    /\ Connect(u)

\* The bot is polling on an empty registry and every user has sent /connect,
\* the user with the highest id last.
InitInterleaved ==
    /\ BOT_TOKEN = TRUE
    /\ MONGODB_URI = TRUE
    /\ client = TRUE
    /\ phase = "polling"
    /\ channels_collection = {}
    /\ conversations = [u \in Users |-> AWAIT_FORWARD]
    /\ update = Command("connect", CHOOSE u \in Users : \A v \in Users : v <= u)
    /\ handler = "connect_start"
    /\ replies = <<Reply("Please forward any message from the channel you want me to manage. Make sure I am an admin with 'Invite Users' permission.", "")>>
    /\ calls = <<>>
    /\ registry_calls = <<>>
    /\ log = <<>>
    /\ raised = NoError
    /\ storage = OK
    /\ bot_member = NotAsked
    /\ first_written = [c \in ChannelIds |-> None]
    /\ wizard_tasks = [u \in Users |-> NoWizardTask]
    /\ join_tasks = [c \in ChannelIds |-> NoJoinTask]

NextInterleaved ==
    \/ \E u \in Users : Reconnect(u)
    \/ \E u \in Users : WizardForwarded(u)
    \/ \E u \in Users : WizardAnswered(u)
    \/ \E u \in Users : WizardReturned(u)
    \/ \E c \in ChannelIds : JoinRequested(c)
    \/ \E c \in ChannelIds : JoinApproved(c)
    \/ \E c \in ChannelIds : JoinReturned(c)

SpecInterleaved == InitInterleaved /\ [][NextInterleaved]_vars

\* ================================================================== claims
Approver == "approve_chat_join_request"
Wizard == "handle_forwarded_message"

Approvals == {i \in 1..Len(calls) : calls[i].op = "approve_chat_join_request"}
Sends == {i \in 1..Len(calls) : calls[i].op = "send_message"}

\* C1, as stated: for a join request whose chat_id has no registry record, the
\* approver issues an approval call for (chat_id, user_id), sends no direct
\* message and raises no error.
C1_ApprovesUnregistered ==
    (handler = Approver /\ Docs(channels_collection, update.chat_id) = {})
    => /\ \E i \in Approvals : /\ calls[i].chat_id = update.chat_id
                               /\ calls[i].user_id = update.user
       /\ Sends = {}
       /\ raised = NoError

\* C1, amended: for a join request whose chat_id has no registry record, the
\* approver makes no approval call and sends no direct message or reply; an
\* error leaves it exactly when the registry lookup itself failed.
C1_IgnoresUnregistered ==
    (handler = Approver /\ Docs(channels_collection, update.chat_id) = {})
    => /\ calls = <<>>
       /\ replies = <<>>
       /\ (raised # NoError <=> storage # OK)

\* A join request for chat 100 was handled on an empty registry, the lookup
\* succeeded, and nothing was called or raised.
C1_Witness ==
    /\ handler = Approver
    /\ update.chat_id = 100
    /\ channels_collection = {}
    /\ storage = OK
    /\ calls = <<>>
    /\ raised = NoError

\* C2: when the registry lookup of a join request returns absent, the approver
\* makes no approval call, sends nothing, logs nothing, raises nothing and
\* changes no state.
C2_AbsentIsIgnored ==
    [][(/\ handler' = Approver
        /\ Len(registry_calls') = 1
        /\ registry_calls'[1].result = OK
        /\ registry_calls'[1].value = None)
       => /\ calls' = <<>>
          /\ replies' = <<>>
          /\ log' = <<>>
          /\ raised' = NoError
          /\ channels_collection' = channels_collection
          /\ conversations' = conversations
          /\ first_written' = first_written]_vars

\* A lookup came back absent while another channel is registered, and the
\* request was dropped.
C2_Witness ==
    /\ handler = Approver
    /\ registry_calls = <<RegistryCall("find_one", update.chat_id, OK, None)>>
    /\ channels_collection # {}
    /\ calls = <<>>

\* C3, as stated (with the registry reachable): when a session in
\* AWAIT_FORWARD receives a message forwarded from channel C and the bot is an
\* administrator of C with can_invite_users, then afterwards the registry maps
\* C to the default message, the reply is the success confirmation naming C's
\* title, and the session has ended.
C3_ForwardRegisters ==
    [][\A u \in Users :
        (/\ conversations[u] = AWAIT_FORWARD
         /\ update'.type = "message"
         /\ update'.user = u
         /\ update'.forward_from_chat # <<>>
         /\ bot_member' = BotMember(NoError, "administrator", TRUE)
         /\ storage' = OK)
        => /\ Doc(update'.forward_from_chat[1].id, default_message)
                \in channels_collection'
           /\ replies' = <<Reply("Successfully connected to channel: {chat_title}.",
                                 update'.forward_from_chat[1].title)>>
           /\ conversations'[u] = END]_vars

\* C4, as stated: when a session in AWAIT_FORWARD receives a message that is
\* not a forward from a channel, the bot replies with the retry instruction,
\* the session stays in AWAIT_FORWARD and the registry is unchanged.
C4_NonForwardRetries ==
    [][\A u \in Users :
        (/\ conversations[u] = AWAIT_FORWARD
         /\ update'.type = "message"
         /\ update'.user = u
         /\ update'.forward_from_chat = <<>>)
        => /\ replies' = <<Reply("This is not a forwarded message from a channel. Please try again.", "")>>
           /\ conversations'[u] = AWAIT_FORWARD
           /\ channels_collection' = channels_collection]_vars

\* C5: when the membership check answers a role other than administrator, or
\* administrator without can_invite_users, the wizard ends the session with
\* the failure reply, makes no registry call and leaves the registry as it
\* was.
C5_PermissionGating ==
    [][(/\ handler' = Wizard
        /\ update'.forward_from_chat # <<>>
        /\ bot_member'.error = NoError
        /\ ~(bot_member'.status = "administrator"
             /\ bot_member'.can_invite_users))
       => /\ conversations'[update'.user] = END
          /\ replies' = <<Reply("I am not an admin in '{chat_title}' or I lack 'Invite Users' permission.",
                                update'.forward_from_chat[1].title)>>
          /\ registry_calls' = <<>>
          /\ channels_collection' = channels_collection
          /\ first_written' = first_written]_vars

\* The wizard ran for a channel where the bot is an administrator without
\* can_invite_users: the session ended with the failure reply and the channel
\* has no document.
C5_Witness ==
    /\ handler = Wizard
    /\ update.forward_from_chat # <<>>
    /\ bot_member = BotMember(NoError, "administrator", FALSE)
    /\ conversations[update.user] = END
    /\ Len(replies) = 1
    /\ replies[1].detail = update.forward_from_chat[1].title
    /\ Docs(channels_collection, update.forward_from_chat[1].id) = {}

\* C7: an error raised by the membership check or by the registry upsert in
\* handle_forwarded_message gives the generic error reply carrying the error
\* text, and the session has ended.
C7_WizardFailSafe ==
    (/\ handler = Wizard
     /\ update.forward_from_chat # <<>>
     /\ \/ bot_member.error # NoError
        \/ /\ bot_member = BotMember(NoError, "administrator", TRUE)
           /\ storage # OK)
    => /\ replies = <<Reply("An error occurred: {e}",
                            IF bot_member.error # NoError
                            THEN bot_member.error ELSE storage)>>
       /\ conversations[update.user] = END
       /\ raised = NoError

\* The upsert failed in a wizard run: the reply carries the storage error and
\* the session has ended.
C7_Witness ==
    /\ handler = Wizard
    /\ update.forward_from_chat # <<>>
    /\ registry_calls =
         <<RegistryCall("update_one", update.forward_from_chat[1].id,
                        StorageError, None)>>
    /\ replies = <<Reply("An error occurred: {e}", StorageError)>>
    /\ conversations[update.user] = END

\* C8, as stated: a storage failure in get_welcome_message or add_channel never
\* leaves the handler that called it.
C8_StorageFailureContained ==
    (/\ handler \in {Approver, Wizard}
     /\ \E i \in 1..Len(registry_calls) : registry_calls[i].result # OK)
    => raised = NoError

\* C9: when the approval succeeds and the direct message fails because the
\* user blocked the bot, the approval is logged as done, the block is logged
\* as a warning, no error is logged and nothing is raised.
C9_BlockedIsWarning ==
    (/\ handler = Approver
     /\ \E i \in Approvals : calls[i].result = OK
     /\ \E j \in Sends : calls[j].result = Forbidden)
    => /\ \E k \in 1..Len(log) : /\ log[k].level = "INFO"
                                 /\ log[k].event = "Approved join request"
       /\ \E k \in 1..Len(log) : log[k].level = "WARNING"
       /\ \A k \in 1..Len(log) : log[k].level # "ERROR"
       /\ raised = NoError

\* A join request on a registered channel was approved and the welcome was
\* refused as blocked.
C9_Witness ==
    /\ handler = Approver
    /\ Docs(channels_collection, update.chat_id) # {}
    /\ Len(calls) = 2
    /\ calls[1].result = OK
    /\ calls[2] = Call("send_message", update.user, update.user,
                       default_message, Forbidden)
    /\ Len(log) = 2
    /\ log[2].level = "WARNING"

\* C10: per join request there is at most one approval call and at most one
\* direct message; the direct message comes after a successful approval of
\* the same request; a failed approval is logged as an error, is the only
\* call of the event, and raises nothing.
C10_ApprovalThenWelcome ==
    handler = Approver
    => /\ Cardinality(Approvals) <= 1
       /\ Cardinality(Sends) <= 1
       /\ \A i \in Approvals : /\ calls[i].chat_id = update.chat_id
                               /\ calls[i].user_id = update.user
       /\ \A j \in Sends :
            /\ calls[j].chat_id = update.user
            /\ \E i \in Approvals : i < j /\ calls[i].result = OK
       /\ \A i \in Approvals :
            calls[i].result # OK
            => /\ Len(calls) = 1
               /\ \E k \in 1..Len(log) : /\ log[k].level = "ERROR"
                                         /\ log[k].detail = calls[i].result
               /\ raised = NoError

\* The approval of a join request on a registered channel failed: one call,
\* one error record.
C10_Witness ==
    /\ handler = Approver
    /\ calls = <<Call("approve_chat_join_request", update.chat_id, update.user,
                      "", BadRequest)>>
    /\ Len(log) = 1
    /\ log[1].level = "ERROR"
    /\ raised = NoError

\* The channels add_channel completed for in the step just taken.
Upserted(rcs) ==
    {c \in ChannelIds :
        \E i \in 1..Len(rcs) :
            rcs[i].op = "update_one" /\ rcs[i].id = c /\ rcs[i].result = OK}

C11_WizardTerminates ==
    [][\A u \in Users :
        (conversations[u] = AWAIT_FORWARD /\ update'.user = u)
        => /\ conversations'[u] \in {AWAIT_FORWARD, END}
           /\ update'.type = "cancel"
              => /\ conversations'[u] = END
                 /\ replies' = <<Reply("Operation cancelled.", "")>>
           /\ (update'.type = "message" /\ update'.forward_from_chat # <<>>)
              => conversations'[u] = END
           /\ (update'.type = "message" /\ update'.forward_from_chat = <<>>)
              => conversations'[u] = AWAIT_FORWARD
           /\ update'.type \in {"start", "connect", "chat_join_request"}
              => conversations'[u] = AWAIT_FORWARD]_vars

\* C12: when the token is missing, the connection string is missing or the
\* client was not constructed, main logs the critical record and the bot never
\* polls: no handler runs and no update is taken in that run.
C12_StartupGating ==
    ~(BOT_TOKEN /\ MONGODB_URI /\ client)
    => /\ phase \in {"startup", "exited"}
       /\ handler \in {"", "main"}
       /\ update.type = "none"
       /\ replies = <<>> /\ calls = <<>> /\ registry_calls = <<>>
       /\ channels_collection = {}
       /\ handler = "main"
          => /\ phase = "exited"
             /\ Len(log) = 1
             /\ log[1].level = "CRITICAL"

\* main has returned on a missing connection string, with the critical record
\* logged.
C12_Witness ==
    /\ ~MONGODB_URI
    /\ BOT_TOKEN
    /\ phase = "exited"
    /\ handler = "main"
    /\ Len(log) = 1
    /\ log[1].level = "CRITICAL"

\* C13: a channel has a document only once a wizard session of a user in
\* AWAIT_FORWARD was given a forward from that channel and the membership
\* check answered administrator with can_invite_users; a document that exists
\* is never removed or changed, and nothing but that wizard step writes to the
\* registry.
C13_RegistryLifecycle ==
    /\ [](\A c \in ChannelIds :
            Docs(channels_collection, c) # {}
            => /\ Docs(channels_collection, c) = {Doc(c, default_message)}
               /\ first_written[c] = default_message)
    /\ [][/\ channels_collection \subseteq channels_collection'
          /\ handler' # Wizard => channels_collection' = channels_collection
          /\ \A c \in ChannelIds :
               (Docs(channels_collection, c) = {}
                  /\ Docs(channels_collection', c) # {})
               => /\ handler' = Wizard
                  /\ conversations[update'.user] = AWAIT_FORWARD
                  /\ update'.forward_from_chat = <<Chat(c, Title(c))>>
                  /\ bot_member' = BotMember(NoError, "administrator", TRUE)]_vars

\* A wizard run for a channel that is registered was refused (the bot had left
\* the channel) and the document is still there.
C13_Witness ==
    /\ handler = Wizard
    /\ update.forward_from_chat # <<>>
    /\ bot_member = BotMember(NoError, "left", FALSE)
    /\ Doc(update.forward_from_chat[1].id, default_message)
          \in channels_collection

\* C15: while a user has no session (it ended, or none was started), the
\* wizard handles neither a message nor a cancel command of that user: no
\* callback runs, nothing is replied and nothing changes; a connect command
\* then opens a session in AWAIT_FORWARD with the same prompt, whatever
\* happened before.
C15_TerminatedAbsorbing ==
    [][\A u \in Users :
        (conversations[u] = END /\ update'.user = u)
        => /\ update'.type \in {"message", "cancel"}
              => /\ handler' = ""
                 /\ replies' = <<>>
                 /\ calls' = <<>>
                 /\ registry_calls' = <<>>
                 /\ conversations' = conversations
                 /\ channels_collection' = channels_collection
           /\ update'.type = "connect"
              => /\ handler' = "connect_start"
                 /\ conversations' = [conversations EXCEPT ![u] = AWAIT_FORWARD]
                 /\ replies' = <<Reply("Please forward any message from the channel you want me to manage. Make sure I am an admin with 'Invite Users' permission.", "")>>
                 /\ channels_collection' = channels_collection]_vars

\* After a session that registered a channel, a cancel command of a user
\* without a session was handled by nothing.
C15_Witness ==
    /\ update.type = "cancel"
    /\ handler = ""
    /\ replies = <<>>
    /\ conversations = [u \in Users |-> END]
    /\ channels_collection # {}

\* C16: once the wizard has registered channel C, a join request for C whose
\* lookup works leads to an approval call for that request's chat_id and
\* user_id and, when the approval succeeds, to one direct message to that
\* user whose text is the message stored for C, which is the default message
\* and not empty.
C16_RegisteredIsWelcomed ==
    (/\ handler = Approver
     /\ first_written[update.chat_id] # None
     /\ storage = OK)
    => /\ Len(calls) >= 1
       /\ calls[1].op = "approve_chat_join_request"
       /\ calls[1].chat_id = update.chat_id
       /\ calls[1].user_id = update.user
       /\ calls[1].result = OK
          => /\ Len(calls) = 2
             /\ calls[2].op = "send_message"
             /\ calls[2].chat_id = update.user
             /\ Doc(update.chat_id, calls[2].text) \in channels_collection
             /\ calls[2].text = default_message
             /\ calls[2].text # ""
       /\ calls[1].result # OK => Len(calls) = 1

\* A join request for a channel the wizard registered was approved and the
\* default message was delivered to the user.
C16_Witness ==
    /\ handler = Approver
    /\ first_written[update.chat_id] = default_message
    /\ Len(calls) = 2
    /\ calls[1].result = OK
    /\ calls[2] = Call("send_message", update.user, update.user,
                       default_message, OK)

\* C14: under any interleaving of the handlers at their awaits (wizard
\* sessions of different users registering the same channel, join-request
\* handlers looking it up), each channel_id has at most one registry record,
\* every record carries the default message, and a join-request handler's
\* lookup sees either no record, and returns, or the one complete record,
\* whose default message it keeps while it is suspended.
C14_RegistryCallsAtomic ==
    /\ [](/\ \A c \in ChannelIds :
                Cardinality(Docs(channels_collection, c)) <= 1
          /\ \A d \in channels_collection :
                d.welcome_message = default_message
          /\ \A c \in ChannelIds :
                /\ join_tasks[c].at = "return"
                   => join_tasks[c].welcome_message = None
                /\ join_tasks[c].at \in {"approve_chat_join_request",
                                         "send_message"}
                   => /\ join_tasks[c].welcome_message = default_message
                      /\ Docs(channels_collection, c)
                            = {Doc(c, default_message)})
    /\ [][\A c \in ChannelIds :
            (join_tasks[c] = NoJoinTask /\ join_tasks'[c] # NoJoinTask)
            => \/ /\ Docs(channels_collection, c) = {}
                  /\ join_tasks'[c] = JoinTask("return", None)
               \/ /\ Docs(channels_collection, c) = {Doc(c, default_message)}
                  /\ join_tasks'[c] = JoinTask("approve_chat_join_request",
                                               default_message)]_vars

\* Two users' sessions have both run update_one for the same channel and are
\* suspended at their replies while a join request for that channel, whose
\* lookup saw the record, awaits its approval.
C14_Witness ==
    \E c \in ChannelIds, u1 \in Users, u2 \in Users :
       /\ u1 # u2
       /\ wizard_tasks[u1] = WizardTask("reply_text", <<Chat(c, Title(c))>>,
                                        TRUE, END)
       /\ wizard_tasks[u2] = WizardTask("reply_text", <<Chat(c, Title(c))>>,
                                        TRUE, END)
       /\ join_tasks[c] = JoinTask("approve_chat_join_request",
                                   default_message)
       /\ Docs(channels_collection, c) = {Doc(c, default_message)}

====
